---- MODULE Spec2Model ----
(***************************************************************************)
(* A model of the RegiMed rule-matching engine (compare.py) and of the     *)
(* two request handlers of app.py that use it (/rules and /upload).        *)
(*                                                                         *)
(* Strings are sequences of one-character strings.  The character "U0130"  *)
(* stands for LATIN CAPITAL LETTER I WITH DOT ABOVE, the one character     *)
(* whose str.lower() is two code points long ("i" followed by U+0307).     *)
(* A similarity (a Python float) is kept as the exact fraction <<n, d>>    *)
(* with d > 0; thresholds are fractions of the same shape.                 *)
(***************************************************************************)
EXTENDS Integers, Sequences, FiniteSets

VARIABLES
    ckPc,         \* position of a direct caller of check_rules: "args" | "returned"
    ckText,       \* check_rules argument: text
    ckRules,      \* check_rules argument: rules
    ckThreshold,  \* check_rules argument: threshold
    ckResults,    \* value returned by check_rules
    rulesFile,    \* what the rules path names on disk
    ldPc,         \* position of a direct caller of load_rules: "args" | "done"
    ldOutcome,    \* outcome of load_rules: returned list or propagated exception
    history,      \* every state the rules path has had, oldest first
    conns         \* the HTTP requests in flight, one per connection

vars == <<ckPc, ckText, ckRules, ckThreshold, ckResults,
          rulesFile, ldPc, ldOutcome, history, conns>>

----------------------------------------------------------------------------
(* Bounds of the model *)

MaxLen == 2
MaxRules == 2
MaxFileLen == 4
MaxEdits == 2

----------------------------------------------------------------------------
(* Strings *)

Chars == {"A", "U0130"}

StringsUpTo(alphabet, n) == UNION {[1..k -> alphabet] : k \in 0..n}

Range(s) == {s[i] : i \in DOMAIN s}

RECURSIVE Concat(_)
Concat(ss) == IF ss = <<>> THEN <<>> ELSE Head(ss) \o Concat(Tail(ss))

\* str.lower() of one character
LowerChar(c) ==
    CASE c = "A" -> <<"a">>
      [] c = "U0130" -> <<"i", "U0307">>
      [] OTHER -> <<c>>

\* str.lower()
Lower(s) == Concat([i \in DOMAIN s |-> LowerChar(s[i])])

\* b in a, the operands of "in" exchanged
ContainsReversed(a, b) ==
    \E off \in 0..(Len(a) - Len(b)) :
        \A i \in 1..Len(b) : a[off + i] = b[i]

\* a in b, for strings: a occurs in b as a contiguous run
Contains(a, b) ==
    \E off \in 0..(Len(b) - Len(a)) :
        \A i \in 1..Len(a) : b[off + i] = a[i]

----------------------------------------------------------------------------
(* difflib.SequenceMatcher(None, a, b) *)

\* fullbcount: how many times each element of b occurs in b
FullBCount(b) ==
    [c \in Range(b) |-> Cardinality({j \in DOMAIN b : b[j] = c})]

\* the loop of quick_ratio over a, from position i on
RECURSIVE QuickMatches(_, _, _, _, _)
QuickMatches(a, i, avail, fullbcount, matches) ==
    IF i > Len(a) THEN matches
    ELSE LET elt == a[i]
             numb == IF elt \in DOMAIN avail THEN avail[elt]
                     ELSE IF elt \in DOMAIN fullbcount THEN fullbcount[elt]
                     ELSE 0
             avail2 == [c \in (DOMAIN avail) \cup {elt} |->
                          IF c = elt THEN numb - 1 ELSE avail[c]]
         IN QuickMatches(a, i + 1, avail2, fullbcount,
                         IF numb > 0 THEN matches + 1 ELSE matches)

\* _calculate_ratio: 2.0 * matches / length, and 1.0 when length is 0
CalculateRatio(matches, length) ==
    IF length # 0 THEN <<2 * matches, length>> ELSE <<1, 1>>

\* length of the common run of a from i and b from j, inside a[..ahi], b[..bhi]
RECURSIVE RunLen(_, _, _, _, _, _)
RunLen(a, b, i, j, ahi, bhi) ==
    IF i > ahi \/ j > bhi \/ a[i] # b[j] THEN 0
    ELSE 1 + RunLen(a, b, i + 1, j + 1, ahi, bhi)

\* find_longest_match on a[alo..ahi], b[blo..bhi] (no junk): the longest
\* common run, the earliest in a and then the earliest in b among the longest
FindLongestMatch(a, b, alo, ahi, blo, bhi) ==
    LET cand == (alo..ahi) \X (blo..bhi)
        k(p) == RunLen(a, b, p[1], p[2], ahi, bhi)
        best == CHOOSE p \in cand :
                    \A q \in cand :
                        \/ k(p) > k(q)
                        \/ k(p) = k(q) /\ p[1] < q[1]
                        \/ k(p) = k(q) /\ p[1] = q[1] /\ p[2] <= q[2]
    IN <<best[1], best[2], k(best)>>

\* the total size of get_matching_blocks
RECURSIVE MatchingBlocks(_, _, _, _, _, _)
MatchingBlocks(a, b, alo, ahi, blo, bhi) ==
    IF alo > ahi \/ blo > bhi THEN 0
    ELSE LET m == FindLongestMatch(a, b, alo, ahi, blo, bhi)
         IN IF m[3] = 0 THEN 0
            ELSE m[3]
                 + MatchingBlocks(a, b, alo, m[1] - 1, blo, m[2] - 1)
                 + MatchingBlocks(a, b, m[1] + m[3], ahi, m[2] + m[3], bhi)

\* SequenceMatcher.ratio(): the measure over order-respecting matching blocks
ratio(a, b) ==
    CalculateRatio(MatchingBlocks(a, b, 1, Len(a), 1, Len(b)), Len(a) + Len(b))

\* SequenceMatcher.quick_ratio()
quick_ratio(a, b) ==
    CalculateRatio(QuickMatches(a, 1, <<>>, FullBCount(b), 0), Len(a) + Len(b))

\* x > y and x >= y on fractions with positive denominators
RatioGT(x, y) == x[1] * y[2] > y[1] * x[2]

RatioGE(x, y) == x[1] * y[2] >= y[1] * x[2]

----------------------------------------------------------------------------
(* compare.check_rules *)

\* threshold: float = 0.5
DefaultThreshold == <<1, 2>>

\* the loop body with "ratio > threshold", as the docstring words it
CheckOneStrict(text_lower, rule, threshold) ==
    LET rule_lower == Lower(rule)
        sim == quick_ratio(rule_lower, text_lower)
    IN [rule |-> rule,
        found |-> Contains(rule_lower, text_lower) \/ RatioGT(sim, threshold),
        similarity |-> sim]

\* the body of the loop over rules: one result dictionary
CheckOne(text_lower, rule, threshold) ==
    LET rule_lower == Lower(rule)
        sim == quick_ratio(rule_lower, text_lower)
    IN [rule |-> rule,
        found |-> Contains(rule_lower, text_lower) \/ RatioGE(sim, threshold),
        similarity |-> sim]

\* the loop: results.append(...) for each rule, in order
RECURSIVE CheckLoop(_, _, _, _)
CheckLoop(text_lower, rules, threshold, results) ==
    IF rules = <<>> THEN results
    ELSE CheckLoop(text_lower, Tail(rules), threshold,
                   Append(results, CheckOne(text_lower, Head(rules), threshold)))

\* check_rules with the lowercased rule stored in the result
CheckRulesLowered(text, rules, threshold) ==
    CheckLoop(Lower(text), [i \in DOMAIN rules |-> Lower(rules[i])], threshold, <<>>)

check_rules(text, rules, threshold) ==
    CheckLoop(Lower(text), rules, threshold, <<>>)

----------------------------------------------------------------------------
(* compare.summarize_missing *)

RECURSIVE SummarizeLoop(_, _)
SummarizeLoop(results, missing) ==
    IF results = <<>> THEN missing
    ELSE SummarizeLoop(Tail(results),
                       IF ~Head(results).found
                       THEN Append(missing, Head(results).rule)
                       ELSE missing)

\* summarize_missing with the test on "found" inverted
SummarizeFound(results) ==
    LET sel == SelectSeq(results, LAMBDA r : r.found)
    IN [i \in DOMAIN sel |-> sel[i].rule]

summarize_missing(results) == SummarizeLoop(results, <<>>)

----------------------------------------------------------------------------
(* compare.load_rules *)

\* characters a rules file is made of in the model
FileChars == {"a", "b", " ", "\n", "\r"}

\* str.isspace() on the model's characters
IsSpace(c) == c \in {" ", "\n", "\r", "\t"}

\* what the rules path can name: nothing, a directory, a path through a
\* regular file, a name with an embedded NUL, an over-long name, a file the
\* process may not read, a file that is not UTF-8, or a readable text file
FailKinds == {"missing", "directory", "not_a_directory", "invalid_name",
              "name_too_long", "denied", "undecodable"}

Unreadable(kind) == [kind |-> kind, content |-> <<>>]

TextFile(content) == [kind |-> "file", content |-> content]

Sources ==
    {Unreadable(k) : k \in FailKinds}
        \cup {TextFile(c) : c \in StringsUpTo(FileChars, MaxFileLen)}

\* the built-in exception classes involved, each with its base class
BaseClass(cls) ==
    CASE cls = "FileNotFoundError" -> "OSError"
      [] cls = "IsADirectoryError" -> "OSError"
      [] cls = "NotADirectoryError" -> "OSError"
      [] cls = "PermissionError" -> "OSError"
      [] cls = "OSError" -> "Exception"
      [] cls = "UnicodeDecodeError" -> "ValueError"
      [] cls = "ValueError" -> "Exception"
      [] OTHER -> "BaseException"

\* issubclass(cls, base)
RECURSIVE IsSubclass(_, _)
IsSubclass(cls, base) ==
    \/ cls = base
    \/ cls # "BaseException" /\ IsSubclass(BaseClass(cls), base)

\* f.readlines() in text mode with universal newlines: "\r\n" and "\r" are
\* read as "\n", and every line keeps its "\n"
RECURSIVE ReadLinesFrom(_, _, _, _)
ReadLinesFrom(content, i, cur, lines) ==
    IF i > Len(content)
    THEN IF cur = <<>> THEN lines ELSE Append(lines, cur)
    ELSE IF content[i] = "\n"
    THEN ReadLinesFrom(content, i + 1, <<>>, Append(lines, Append(cur, "\n")))
    ELSE IF content[i] = "\r"
    THEN ReadLinesFrom(content,
                       IF i < Len(content) /\ content[i + 1] = "\n"
                       THEN i + 2 ELSE i + 1,
                       <<>>, Append(lines, Append(cur, "\n")))
    ELSE ReadLinesFrom(content, i + 1, Append(cur, content[i]), lines)

ReadLines(content) == ReadLinesFrom(content, 1, <<>>, <<>>)

RECURSIVE LStrip(_)
LStrip(s) == IF s # <<>> /\ IsSpace(Head(s)) THEN LStrip(Tail(s)) ELSE s

RECURSIVE RStrip(_)
RStrip(s) ==
    IF s # <<>> /\ IsSpace(s[Len(s)]) THEN RStrip(SubSeq(s, 1, Len(s) - 1)) ELSE s

\* str.rstrip() in the place of str.strip()
StripRightOnly(s) == RStrip(s)

\* str.strip()
Strip(s) == LStrip(RStrip(s))

\* open(path, "r", encoding="utf-8") followed by f.readlines(): the lines,
\* or the exception that open or the decoder raises
OpenAndRead(src) ==
    CASE src.kind = "missing" -> [exc |-> "FileNotFoundError", lines |-> <<>>]
      [] src.kind = "directory" -> [exc |-> "IsADirectoryError", lines |-> <<>>]
      [] src.kind = "not_a_directory" -> [exc |-> "NotADirectoryError", lines |-> <<>>]
      [] src.kind = "invalid_name" -> [exc |-> "ValueError", lines |-> <<>>]
      [] src.kind = "name_too_long" -> [exc |-> "OSError", lines |-> <<>>]
      [] src.kind = "denied" -> [exc |-> "PermissionError", lines |-> <<>>]
      [] src.kind = "undecodable" -> [exc |-> "UnicodeDecodeError", lines |-> <<>>]
      [] OTHER -> [exc |-> "none", lines |-> ReadLines(src.content)]

\* [line.strip() for line in f.readlines() if line.strip()]
RECURSIVE StripNonEmpty(_, _)
StripNonEmpty(lines, rules) ==
    IF lines = <<>> THEN rules
    ELSE StripNonEmpty(Tail(lines),
                       IF Strip(Head(lines)) # <<>>
                       THEN Append(rules, Strip(Head(lines)))
                       ELSE rules)

\* except OSError, except Exception in the place of except FileNotFoundError
CaughtOSError == "OSError"

CaughtException == "Exception"

\* the class named by the except clause
CaughtClass == "FileNotFoundError"

\* load_rules: the list returned, or the exception that reaches the caller
load_rules(src) ==
    LET r == OpenAndRead(src)
    IN IF r.exc = "none"
       THEN [raised |-> "none", rules |-> StripNonEmpty(r.lines, <<>>)]
       ELSE IF IsSubclass(r.exc, CaughtClass)
       THEN [raised |-> "none", rules |-> <<>>]
       ELSE [raised |-> r.exc, rules |-> <<>>]

----------------------------------------------------------------------------
(* Direct calls of the two library functions *)

Thresholds == {<<-1, 4>>, <<0, 1>>, DefaultThreshold, <<5, 4>>}

Texts == StringsUpTo(Chars, MaxLen)

RuleLists == StringsUpTo(Texts, MaxRules)

NoOutcome == [raised |-> "none", rules |-> <<>>]

NoSource == Unreadable("missing")

InitCheck ==
    /\ ckPc = "args"
    /\ ckText \in Texts
    /\ ckRules \in RuleLists
    /\ ckThreshold \in Thresholds
    /\ ckResults = <<>>
    /\ rulesFile = NoSource
    /\ ldPc = "args"
    /\ ldOutcome = NoOutcome
    /\ history = <<NoSource>>
    /\ conns = <<>>

\* results = check_rules(text, rules, threshold)
CheckRulesCall ==
    /\ ckPc = "args"
    /\ ckResults' = check_rules(ckText, ckRules, ckThreshold)
    /\ ckPc' = "returned"
    /\ UNCHANGED <<ckText, ckRules, ckThreshold, rulesFile, ldPc, ldOutcome,
                   history, conns>>

NextCheck == CheckRulesCall

SpecCheck == InitCheck /\ [][NextCheck]_vars

InitLoad ==
    /\ ckPc = "args"
    /\ ckText = <<>>
    /\ ckRules = <<>>
    /\ ckThreshold = DefaultThreshold
    /\ ckResults = <<>>
    /\ rulesFile \in Sources
    /\ ldPc = "args"
    /\ ldOutcome = NoOutcome
    /\ history = <<rulesFile>>
    /\ conns = <<>>

\* rules = load_rules(path)
LoadRulesCall ==
    /\ ldPc = "args"
    /\ ldOutcome' = load_rules(rulesFile)
    /\ ldPc' = "done"
    /\ UNCHANGED <<ckPc, ckText, ckRules, ckThreshold, ckResults, rulesFile,
                   history, conns>>

NextLoad == LoadRulesCall

SpecLoad == InitLoad /\ [][NextLoad]_vars

----------------------------------------------------------------------------
(* app.py: the /rules and /upload handlers *)

Conns == {"c1", "c2"}

\* the states the rules path takes while the service runs
ServiceSources ==
    {Unreadable("missing"),
     Unreadable("denied"),
     TextFile(<<"A", "\n", " ", "z", "z", "\r", "\n">>),
     TextFile(<<"U0130", "\n", "\n">>)}

\* uploaded file names, and os.path.splitext(filename)[-1] of each
Filenames == {"notes.txt", "SCAN.PDF", "memo.docx"}

SplitExt(filename) ==
    CASE filename = "notes.txt" -> <<".", "t", "x", "t">>
      [] filename = "SCAN.PDF" -> <<".", "P", "D", "F">>
      [] filename = "memo.docx" -> <<".", "d", "o", "c", "x">>
      [] OTHER -> <<>>

LowerExtChar(c) ==
    CASE c = "P" -> "p" [] c = "D" -> "d" [] c = "F" -> "f" [] OTHER -> c

\* os.path.splitext(filename)[-1].lower()
Extension(filename) ==
    [i \in DOMAIN SplitExt(filename) |-> LowerExtChar(SplitExt(filename)[i])]

ExtPdf == <<".", "p", "d", "f">>

ExtTxt == <<".", "t", "x", "t">>

\* uploaded bodies: "xFF" is a byte that is not UTF-8, "%PDF" a PDF header
Bodies ==
    {<<>>, <<"xFF">>, <<"a", "xFF", "U0130">>, <<"%PDF", "U0130", "A">>}

\* file_bytes.decode("utf-8", errors="ignore")
DecodeIgnore(bytes) == SelectSeq(bytes, LAMBDA b : b # "xFF")

\* extract_pdf: the text of the pages, or an exception for what is no PDF
extract_pdf(bytes) ==
    IF bytes # <<>> /\ Head(bytes) = "%PDF"
    THEN [exc |-> "none", text |-> DecodeIgnore(Tail(bytes))]
    ELSE [exc |-> "FileDataError", text |-> <<>>]

\* the response with compliant taken from rules_found
BuildReportAnyFound(filename, rules, results, missing) ==
    [filename |-> filename,
     total_rules |-> Len(rules),
     rules_found |-> Len(rules) - Len(missing),
     rules_missing |-> Len(missing),
     missing_rules |-> missing,
     details |-> results,
     compliant |-> Len(rules) - Len(missing) > 0]

\* the response dictionary of upload_file
BuildReport(filename, rules, results, missing) ==
    [filename |-> filename,
     total_rules |-> Len(rules),
     rules_found |-> Len(rules) - Len(missing),
     rules_missing |-> Len(missing),
     missing_rules |-> missing,
     details |-> results,
     compliant |-> Len(missing) = 0]

NoBody == [kind |-> "none"]

ErrorBody(detail) == [kind |-> "error", detail |-> detail]

IdleConn ==
    [pc |-> "idle", endpoint |-> "none", filename |-> "", bytes |-> <<>>,
     text |-> <<>>, startedAt |-> 0, loadedAt |-> 0, status |-> 0,
     body |-> NoBody]

\* the rules as loaded once, when the service started
LoadCached == load_rules(history[1])

\* the rules a handler gets from load_rules(rules_path) on the current file
LoadForRequest == load_rules(rulesFile)

\* lines 119-132 of upload_file, once the text is extracted
UploadRespond(conn, text) ==
    LET loaded == LoadForRequest
        results == check_rules(text, loaded.rules, DefaultThreshold)
        missing == summarize_missing(results)
    IN IF loaded.raised # "none"
       THEN [conn EXCEPT !.pc = "done", !.text = text,
                         !.loadedAt = Len(history), !.status = 500,
                         !.body = ErrorBody(loaded.raised)]
       ELSE [conn EXCEPT !.pc = "done", !.text = text,
                         !.loadedAt = Len(history), !.status = 200,
                         !.body = [kind |-> "report",
                                   report |-> BuildReport(conn.filename,
                                                loaded.rules, results, missing)]]

Reject(conn, detail) ==
    [conn EXCEPT !.pc = "done", !.status = 400, !.body = ErrorBody(detail)]

InitService ==
    /\ ckPc = "args"
    /\ ckText = <<>>
    /\ ckRules = <<>>
    /\ ckThreshold = DefaultThreshold
    /\ ckResults = <<>>
    /\ rulesFile \in ServiceSources
    /\ ldPc = "args"
    /\ ldOutcome = NoOutcome
    /\ history = <<rulesFile>>
    /\ conns = [c \in Conns |-> IdleConn]

unchangedCalls == <<ckPc, ckText, ckRules, ckThreshold, ckResults, ldPc, ldOutcome>>

\* GET /rules: the handler has no await, so it runs in one step
GetRules(c) ==
    /\ conns[c].pc = "idle"
    /\ LET loaded == LoadForRequest
           conn == [conns[c] EXCEPT !.endpoint = "rules",
                                    !.startedAt = Len(history),
                                    !.loadedAt = Len(history)]
       IN conns' = [conns EXCEPT ![c] =
            IF loaded.raised # "none"
            THEN [conn EXCEPT !.pc = "done", !.status = 500,
                              !.body = ErrorBody(loaded.raised)]
            ELSE [conn EXCEPT !.pc = "done", !.status = 200,
                              !.body = [kind |-> "rules", rules |-> loaded.rules]]]
    /\ UNCHANGED <<unchangedCalls, rulesFile, history>>

\* POST /upload up to "await file.read()": the extension is checked first
UploadBegin(c) ==
    /\ conns[c].pc = "idle"
    /\ \E filename \in Filenames, bytes \in Bodies :
         LET conn == [conns[c] EXCEPT !.endpoint = "upload",
                                      !.filename = filename,
                                      !.bytes = bytes,
                                      !.startedAt = Len(history)]
         IN conns' = [conns EXCEPT ![c] =
              IF Extension(filename) \notin {ExtPdf, ExtTxt}
              THEN Reject(conn, "Only .pdf and .txt files are supported")
              ELSE [conn EXCEPT !.pc = "reading"]]
    /\ UNCHANGED <<unchangedCalls, rulesFile, history>>

\* POST /upload from the return of file.read() to the response
UploadFinish(c) ==
    /\ conns[c].pc = "reading"
    /\ LET conn == conns[c]
           pdf == extract_pdf(conn.bytes)
       IN conns' = [conns EXCEPT ![c] =
            IF conn.bytes = <<>>
            THEN Reject(conn, "Uploaded file is empty")
            ELSE IF Extension(conn.filename) = ExtPdf
            THEN IF pdf.exc # "none"
                 THEN Reject(conn, "Could not parse PDF")
                 ELSE UploadRespond(conn, pdf.text)
            ELSE UploadRespond(conn, DecodeIgnore(conn.bytes))]
    /\ UNCHANGED <<unchangedCalls, rulesFile, history>>

\* the client takes the response; the connection serves the next request
Close(c) ==
    /\ conns[c].pc = "done"
    /\ conns' = [conns EXCEPT ![c] = IdleConn]
    /\ UNCHANGED <<unchangedCalls, rulesFile, history>>

\* the maintainer of the rule source replaces, removes or locks the file
EditRules ==
    /\ Len(history) <= MaxEdits
    /\ \E src \in ServiceSources \ {rulesFile} :
         /\ rulesFile' = src
         /\ history' = Append(history, src)
    /\ UNCHANGED <<unchangedCalls, conns>>

Next ==
    \/ \E c \in Conns : GetRules(c)
    \/ \E c \in Conns : UploadBegin(c)
    \/ \E c \in Conns : UploadFinish(c)
    \/ \E c \in Conns : Close(c)
    \/ EditRules

Spec == InitService /\ [][Next]_vars

----------------------------------------------------------------------------
(* Properties of check_rules, checked under SpecCheck *)

\* a is SubSeq(b, i, j) for some i, j
OccursIn(a, b) ==
    \E i \in 1..(Len(b) + 1), j \in 0..Len(b) : SubSeq(b, i, j) = a

Returned == ckPc = "returned"

C2_OneResultPerRule ==
    Returned =>
        /\ Len(ckResults) = Len(ckRules)
        /\ \A i \in DOMAIN ckRules :
              /\ ckResults[i].rule = ckRules[i]
              /\ ckResults[i] = check_rules(ckText, <<ckRules[i]>>, ckThreshold)[1]

\* a rule given twice, in a casing that lower() changes
C2_Witness ==
    /\ Returned
    /\ Len(ckRules) = 2
    /\ ckRules[1] = ckRules[2]
    /\ ckRules[1] # <<>>
    /\ Lower(ckRules[1]) # ckRules[1]
    /\ Len(ckResults) = 2

RECURSIVE SumOver(_, _)
SumOver(S, f) ==
    IF S = {} THEN 0
    ELSE LET x == CHOOSE y \in S : TRUE
         IN f[x] + SumOver(S \ {x}, f)

Occurrences(s, c) == Cardinality({i \in DOMAIN s : s[i] = c})

Min(x, y) == IF x <= y THEN x ELSE y

\* the number of characters of a that pair off with equal characters of b,
\* whatever their positions
CommonCount(a, b) ==
    SumOver(Range(a), [c \in Range(a) |-> Min(Occurrences(a, c), Occurrences(b, c))])

\* C8 as stated: the similarity is 2*M divided by the summed lengths of the
\* two strings compared, M the size of the order-respecting matching blocks
\* of the lowercased strings, so that reordered characters score below 1.
C8_SimilarityIsMatchingBlocks ==
    Returned =>
        \A i \in DOMAIN ckResults :
            LET a == Lower(ckRules[i])
                b == Lower(ckText)
                sim == ckResults[i].similarity
            IN /\ Len(a) + Len(b) > 0 =>
                    sim[1] * (Len(a) + Len(b))
                        = 2 * MatchingBlocks(a, b, 1, Len(a), 1, Len(b)) * sim[2]
               /\ (a # b /\ Len(a) = Len(b) /\ CommonCount(a, b) = Len(a)) =>
                    sim[1] < sim[2]

\* C8 amended: the similarity is 2*K / (len(lower(r)) + len(lower(T))), K the
\* number of characters the two lowercased strings have in common counted
\* with multiplicity and without regard to order, and 1 when both are empty;
\* it lies in [0, 1].
C8_SimilarityIsCommonCount ==
    Returned =>
        \A i \in DOMAIN ckResults :
            LET a == Lower(ckRules[i])
                b == Lower(ckText)
                sim == ckResults[i].similarity
            IN /\ sim[2] > 0
               /\ 0 <= sim[1]
               /\ sim[1] <= sim[2]
               /\ Len(a) + Len(b) > 0 =>
                    sim[1] * (Len(a) + Len(b)) = 2 * CommonCount(a, b) * sim[2]
               /\ Len(a) + Len(b) = 0 => sim[1] = sim[2]

\* a rule whose characters occur in the text in another order scores 1
C8_Witness ==
    /\ Returned
    /\ \E i \in DOMAIN ckResults :
          /\ Lower(ckRules[i]) # Lower(ckText)
          /\ Len(ckRules[i]) = 2
          /\ Len(ckText) = 2
          /\ ckResults[i].similarity[1] = ckResults[i].similarity[2]

NonEmptyRules == \A i \in DOMAIN ckRules : ckRules[i] # <<>>

----------------------------------------------------------------------------
(* Properties of load_rules, checked under SpecLoad *)

Loaded == ldPc = "done"

\* C5: a source that does not exist gives the empty list and no exception;
\* every other failure to open or read the source reaches the caller.
C5_AbsenceVersusFailure ==
    Loaded =>
        /\ rulesFile.kind = "missing" =>
              ldOutcome.raised = "none" /\ ldOutcome.rules = <<>>
        /\ rulesFile.kind \in FailKinds \ {"missing"} =>
              ldOutcome.raised # "none"

\* a file the process may not read
C5_Witness ==
    /\ Loaded
    /\ rulesFile.kind = "denied"
    /\ ldOutcome.raised = "PermissionError"

MalformedKinds ==
    {"missing", "directory", "not_a_directory", "invalid_name", "name_too_long"}

\* C6 as stated: every malformed or missing path gives the empty list and
\* no exception.
C6_MalformedPathGivesEmpty ==
    (Loaded /\ rulesFile.kind \in MalformedKinds) =>
        ldOutcome.raised = "none" /\ ldOutcome.rules = <<>>

\* C6 amended: a path that does not exist gives the empty list and no
\* exception; a directory, a path through a non-directory and a name that is
\* not a valid file name each raise.
C6_OnlyMissingGivesEmpty ==
    Loaded =>
        /\ rulesFile.kind = "missing" =>
              ldOutcome.raised = "none" /\ ldOutcome.rules = <<>>
        /\ rulesFile.kind = "directory" => ldOutcome.raised = "IsADirectoryError"
        /\ rulesFile.kind = "not_a_directory" =>
              ldOutcome.raised = "NotADirectoryError"
        /\ rulesFile.kind = "invalid_name" => ldOutcome.raised = "ValueError"
        /\ rulesFile.kind = "name_too_long" => ldOutcome.raised = "OSError"

\* the path names a directory
C6_Witness ==
    /\ Loaded
    /\ rulesFile.kind = "directory"
    /\ ldOutcome.raised = "IsADirectoryError"

IsLineBreak(c) == c \in {"\n", "\r"}

NonSpace(s) == SelectSeq(s, LAMBDA c : ~IsSpace(c))

\* positions of the first non-blank character of each line of content
LineStarts(content) ==
    {i \in DOMAIN content :
        /\ ~IsSpace(content[i])
        /\ \A j \in 1..(i - 1) :
              (\A k \in j..i : ~IsLineBreak(content[k])) => IsSpace(content[j])}

\* C7: from a readable source load_rules returns the trimmed non-blank
\* lines in order: no rule is empty, starts or ends with whitespace or spans
\* a line break; each rule stands in the source as written; the rules hold
\* the non-blank characters of the source in order; there is one rule per
\* non-blank line; and the source is as it was.
C7_TrimmedNonEmptyLines ==
    (Loaded /\ rulesFile.kind = "file") =>
        LET rules == ldOutcome.rules
            content == rulesFile.content
        IN /\ ldOutcome.raised = "none"
           /\ \A i \in DOMAIN rules :
                 /\ rules[i] # <<>>
                 /\ ~IsSpace(rules[i][1])
                 /\ ~IsSpace(rules[i][Len(rules[i])])
                 /\ \A k \in DOMAIN rules[i] : ~IsLineBreak(rules[i][k])
                 /\ OccursIn(rules[i], content)
           /\ NonSpace(Concat(rules)) = NonSpace(content)
           /\ Len(rules) = Cardinality(LineStarts(content))
           /\ rulesFile = history[1]

\* two rules from a source whose first line is indented
C7_Witness ==
    /\ Loaded
    /\ rulesFile.kind = "file"
    /\ Len(rulesFile.content) = 4
    /\ IsSpace(rulesFile.content[1])
    /\ Len(ldOutcome.rules) = 2
    /\ ldOutcome.rules[1] # ldOutcome.rules[2]

----------------------------------------------------------------------------
(* Properties of the upload report and of the handlers, checked under Spec *)

Answered(c) == conns[c].pc = "done" /\ conns[c].status = 200

Reporting == {c \in Conns : Answered(c) /\ conns[c].endpoint = "upload"}

Reports == {conns[c].body.report : c \in Reporting}

\* the rule texts of the results that are not found, in order
RulesNotFound(results) ==
    LET sel == SelectSeq(results, LAMBDA r : ~r.found)
    IN [i \in DOMAIN sel |-> sel[i].rule]

\* C3: missing_rules is the rule texts of the details that are not found, in
\* order, and the details are the results as check_rules returned them;
\* rules_missing is the length of missing_rules and equals
\* total_rules - rules_found; rules_found is the number of details found.
C3_MissingAreTheNotFound ==
    \A c \in Reporting :
        LET rep == conns[c].body.report
        IN /\ rep.missing_rules = RulesNotFound(rep.details)
           /\ rep.details
                 = check_rules(conns[c].text,
                               load_rules(history[conns[c].loadedAt]).rules,
                               DefaultThreshold)
           /\ rep.rules_missing = Len(rep.missing_rules)
           /\ rep.rules_missing = rep.total_rules - rep.rules_found
           /\ rep.rules_found
                 = Cardinality({i \in DOMAIN rep.details : rep.details[i].found})

\* a report with a rule found before a rule missing
C3_Witness ==
    \E rep \in Reports :
        /\ rep.total_rules = 2
        /\ rep.details[1].found
        /\ ~rep.details[2].found
        /\ rep.missing_rules = <<rep.details[2].rule>>

\* C4: compliant iff missing_rules is empty iff rules_missing is 0 iff every
\* detail is found; with no rules the report is compliant.
C4_CompliantIffNothingMissing ==
    \A rep \in Reports :
        /\ rep.compliant <=> rep.missing_rules = <<>>
        /\ rep.compliant <=> rep.rules_missing = 0
        /\ rep.compliant <=> \A i \in DOMAIN rep.details : rep.details[i].found
        /\ rep.total_rules = 0 => rep.compliant

\* a report against an empty rule set
C4_Witness ==
    \E rep \in Reports :
        /\ rep.total_rules = 0
        /\ rep.details = <<>>
        /\ rep.compliant

\* the rules a response was computed from
RulesUsed(c) ==
    IF conns[c].endpoint = "rules" THEN conns[c].body.rules
    ELSE [i \in DOMAIN conns[c].body.report.details |->
            conns[c].body.report.details[i].rule]

\* C10: every answered request used the rule list of the file as it stood
\* when the request loaded it, which is no earlier than when the request
\* started; an upload report is built from that one list.
C10_RulesReadPerRequest ==
    \A c \in Conns :
        conns[c].pc = "done" /\ conns[c].status # 400 =>
            LET at == conns[c].loadedAt
            IN /\ at \in DOMAIN history
               /\ conns[c].startedAt <= at
               /\ conns[c].status = 200
                    <=> load_rules(history[at]).raised = "none"
               /\ conns[c].status = 200 =>
                    /\ RulesUsed(c) = load_rules(history[at]).rules
                    /\ conns[c].endpoint = "upload" =>
                         LET rep == conns[c].body.report
                         IN /\ rep.total_rules = Len(rep.details)
                            /\ rep.details
                                 = check_rules(conns[c].text, RulesUsed(c),
                                               DefaultThreshold)
                            /\ \A i \in DOMAIN rep.missing_rules :
                                 \E k \in DOMAIN rep.details :
                                    rep.details[k].rule = rep.missing_rules[i]

\* an upload that started before an edit and loaded the rules after it
C10_Witness ==
    \E c \in Conns :
        /\ Answered(c)
        /\ conns[c].endpoint = "upload"
        /\ conns[c].startedAt < conns[c].loadedAt
        /\ load_rules(history[conns[c].startedAt]).rules # RulesUsed(c)
        /\ RulesUsed(c) # <<>>

====
